---- MODULE Spec2Model ----
(***************************************************************************)
(* The gateway shard of src/gateway/sharding/mod.rs as a state machine.    *)
(*                                                                         *)
(* The Shard struct is the record `shard`; every method of Shard is a pure *)
(* operator from (self, inputs) to [self, ok, action, err, sent, client],  *)
(* and one action of Next applies it.  Instants and Durations are counted  *)
(* in milliseconds; Option<T> is a sequence of length at most one.         *)
(***************************************************************************)
EXTENDS Integers, Sequences, FiniteSets, TLC

VARIABLES
    shard,          \* the Shard struct
    now,            \* the monotonic clock read by Instant::now()
    ret,            \* the call on the shard that has just returned, until its caller takes it
    identifies,     \* history: Identify actions emitted since the last successful connect
                    \* (0, 1, or 2 for two and more)
    ready_fate,     \* history: what has followed the last Ready processed
    unacked,        \* history: when the latest heartbeat was sent, while no HeartbeatAck
                    \* has been processed since
    observers       \* history: what has become of each application-id callback
                    \* registered, in the order of registration

vars == <<shard, now, ret, identifies, ready_fate, unacked, observers>>

----------------------------------------------------------------------------
(* Bounds of the exploration *)

MaxTicks == 1
MaxSeq == 1
MaxSessions == 2
MaxObservers == 2

----------------------------------------------------------------------------
(* Program constants *)

\* StdDuration::from_secs(15), in milliseconds
GraceMs == 15000

\* raw_os_error() of a broken pipe
BrokenPipe == 32

\* the clock advances in steps of one pre-Hello grace
TickMs == GraceMs * 1

None == <<>>
Some(x) == <<x>>
IsSome(o) == o /= <<>>
Unwrap(o) == o[1]

Stages == {"Connected", "Connecting", "Disconnected", "Handshake", "Identifying", "Resuming"}

\* OnlineStatus, and the activities a presence may carry
OnlineStatuses == {"DoNotDisturb", "Idle", "Invisible", "Offline", "Online"}
Activities == {"playing"}
\* PresenceData::default()
DefaultPresence == [activity |-> None, status |-> "Online"]
\* the Option<PresenceData> handed to Shard::new
PresenceInputs ==
    {None} \cup {Some([activity |-> a, status |-> st]) :
                     a \in {None} \cup {Some(x) : x \in Activities},
                     st \in OnlineStatuses}

BaseUrl == "wss://gateway.example"
ResumeUrls == {"wss://r.example"}
SessionIds == 1..MaxSessions
Seqs == 0..MaxSeq
\* a dispatch may run ahead of the last one and leave a gap
GapSeqs == 0..(MaxSeq + 2)
\* a server heartbeat may run ahead of the last dispatch
HeartbeatSeqs == 0..(MaxSeq + 1)
\* Hello intervals: shorter than a step of the clock, and exactly one step
Intervals == {TickMs \div 2, TickMs}
CloseCodeInputs == 3999..4015
\* a socket write: done, an I/O error with its raw OS code, or another tungstenite error
SendOutcomes == {<<"Ok", 0>>, <<"Io", BrokenPipe>>, <<"Io", BrokenPipe + 72>>, <<"Protocol", 0>>}
ConnectOutcomes == {"Ok", "Failed"}
\* no socket write was asked for
NoSend == <<"", 0>>

----------------------------------------------------------------------------
(* constants.rs: enum_number! CloseCode *)

CloseCode(code) ==
    CASE code = 4000 -> "UnknownError"
      [] code = 4001 -> "UnknownOpcode"
      [] code = 4002 -> "DecodeError"
      [] code = 4003 -> "NotAuthenticated"
      [] code = 4004 -> "AuthenticationFailed"
      [] code = 4005 -> "AlreadyAuthenticated"
      [] code = 4007 -> "InvalidSequence"
      [] code = 4008 -> "RateLimited"
      [] code = 4009 -> "SessionTimeout"
      [] code = 4010 -> "InvalidShard"
      [] code = 4011 -> "ShardingRequired"
      [] code = 4012 -> "InvalidApiVersion"
      [] code = 4013 -> "InvalidGatewayIntents"
      [] code = 4014 -> "DisallowedGatewayIntents"
      [] OTHER -> "Unknown"

----------------------------------------------------------------------------
(* Inbound events: Result<GatewayEvent> as handed to handle_event *)

\* kind is the variant; n its number (the dispatch seq, the heartbeat seq, the Hello
\* interval, the close code); data the rest: the decoded dispatch payload, whether an
\* InvalidateSession is resumable, whether a Closed carries a close frame.
Event(kind, n, data) == [kind |-> kind, n |-> n, data |-> data]
NoEvent == Event("", 0, <<>>)

DispatchPayloads ==
    {<<"Ready", sid, url>> : sid \in SessionIds, url \in ResumeUrls}
        \cup {<<"Resumed">>, <<"Other">>, <<"Undecodable">>}

----------------------------------------------------------------------------
(* What a call returns: the shard afterwards, Ok/Err, the ShardAction,     *)
(* the error, the frames written to the socket, the WsClient returned.     *)

Out(self, ok, action, err, sent, client) ==
    [self |-> self, ok |-> ok, action |-> action, err |-> err,
     sent |-> sent, client |-> client, called |-> None, value |-> None]

\* the same, the call having invoked the callback cb (if any)
Calling(out, cb) == [out EXCEPT !.called = cb]

\* the same, the call having returned the Option v
Returning(out, v) == [out EXCEPT !.value = v]

Ok(self, action) == Out(self, TRUE, action, "", <<>>, None)
Err(self, err) == Out(self, FALSE, "", err, <<>>, None)

----------------------------------------------------------------------------
(* Shard::new *)

\* variant: a new shard is not connected yet
NewShard_Disconnected(t, presence) ==
    [client |-> BaseUrl,
     presence |-> IF IsSome(presence) THEN Unwrap(presence) ELSE DefaultPresence,
     application_id_callback |-> None,
     last_heartbeat_sent |-> None,
     last_heartbeat_ack |-> None,
     heartbeat_interval |-> None,
     last_heartbeat_acknowledged |-> TRUE,
     seq |-> 0,
     stage |-> "Disconnected",
     started |-> t,
     ws_url |-> BaseUrl,
     resume_metadata |-> None]

\* presence.unwrap_or_default() is stored as it is
NewShard(t, presence) ==
    [client |-> BaseUrl,
     presence |-> IF IsSome(presence) THEN Unwrap(presence) ELSE DefaultPresence,
     application_id_callback |-> None,
     last_heartbeat_sent |-> None,
     last_heartbeat_ack |-> None,
     heartbeat_interval |-> None,
     last_heartbeat_acknowledged |-> TRUE,
     seq |-> 0,
     stage |-> "Handshake",
     started |-> t,
     ws_url |-> BaseUrl,
     resume_metadata |-> None]

----------------------------------------------------------------------------
(* Shard::set_application_id_callback *)

SetApplicationIdCallback(self, callback) ==
    Ok([self EXCEPT !.application_id_callback = Some(callback)], "")

----------------------------------------------------------------------------
(* Shard::set_activity, Shard::set_presence, Shard::set_status *)

SetActivity(self, activity) == [self EXCEPT !.presence.activity = activity]

SetStatus(self, status) ==
    [self EXCEPT !.presence.status = IF status = "Offline" THEN "Invisible" ELSE status]

SetPresence(self, activity, status) == SetStatus(SetActivity(self, activity), status)

----------------------------------------------------------------------------
(* ConnectionStage::is_connecting *)

\* variant: a connected shard counts as connecting
IsConnecting_Connected(stage) ==
    stage \in {"Connecting", "Handshake", "Identifying", "Resuming", "Connected"}

IsConnecting(stage) == stage \in {"Connecting", "Handshake", "Identifying", "Resuming"}

----------------------------------------------------------------------------
(* Shard::heartbeat *)

\* variant: a broken pipe is put up with
Heartbeat_BrokenPipeHealthy(self, t, send) ==
    IF send[1] = "Ok"
    THEN Out([self EXCEPT !.last_heartbeat_sent = Some(t),
                          !.last_heartbeat_acknowledged = FALSE],
             TRUE, "", "", <<<<"Heartbeat", self.seq>>>>, None)
    ELSE IF send[1] = "Io" /\ send[2] /= BrokenPipe
         THEN Err(self, "HeartbeatFailed")
         ELSE Ok(self, "")

Heartbeat(self, t, send) ==
    IF send[1] = "Ok"
    THEN Out([self EXCEPT !.last_heartbeat_sent = Some(t),
                          !.last_heartbeat_acknowledged = FALSE],
             TRUE, "", "", <<<<"Heartbeat", self.seq>>>>, None)
    ELSE IF send[1] = "Io" /\ send[2] /= BrokenPipe
         THEN Err(self, "HeartbeatFailed")
         ELSE Err(self, "HeartbeatFailed")

----------------------------------------------------------------------------
(* Shard::handle_gateway_dispatch, with deserialize_and_log_event *)

Decodes(data) == data[1] /= "Undecodable"

\* variant: a Ready stores the session and leaves the stage alone
ReadyArm_KeepsStage(self, data) ==
    [self EXCEPT !.resume_metadata =
                     Some([session_id |-> data[2], resume_ws_url |-> data[3]]),
                 !.application_id_callback = None]

\* variant: the callback stays registered after it was called
ReadyArm_KeepsCallback(self, data) ==
    [self EXCEPT !.resume_metadata =
                     Some([session_id |-> data[2], resume_ws_url |-> data[3]]),
                 !.stage = "Connected"]

\* application_id_callback.take() leaves None; what it took is called by
\* handle_gateway_dispatch
ReadyArm(self, data) ==
    [self EXCEPT !.resume_metadata =
                     Some([session_id |-> data[2], resume_ws_url |-> data[3]]),
                 !.stage = "Connected",
                 !.application_id_callback = None]

\* variant: a Resumed leaves the heartbeat timestamps as they were
ResumedArm_KeepsTimestamps(self, t) ==
    [self EXCEPT !.stage = "Connected",
                 !.last_heartbeat_acknowledged = TRUE]

ResumedArm(self, t) ==
    [self EXCEPT !.stage = "Connected",
                 !.last_heartbeat_acknowledged = TRUE,
                 !.last_heartbeat_sent = Some(t),
                 !.last_heartbeat_ack = None]

\* variant: the sequence number is only ever raised
StoreSeq_Monotone(self, seq) ==
    [self EXCEPT !.seq = IF seq > self.seq THEN seq ELSE self.seq]

StoreSeq(self, seq) == [self EXCEPT !.seq = seq]

\* variant: a dispatch that runs ahead of the sequence is not stored
HandleGatewayDispatch_GapBlocks(self, seq, data, t) ==
    LET s1 == IF seq > self.seq + 1 THEN self ELSE StoreSeq(self, seq) IN
    IF ~Decodes(data)
    THEN Err(s1, "Json")
    ELSE CASE data[1] = "Ready" ->
                Calling(Ok(ReadyArm(s1, data), "Dispatch"), s1.application_id_callback)
           [] data[1] = "Resumed" -> Ok(ResumedArm(s1, t), "Dispatch")
           [] OTHER -> Ok(s1, "Dispatch")

\* variant: the payload is decoded before the sequence number is stored
HandleGatewayDispatch_DecodeFirst(self, seq, data, t) ==
    LET s1 == StoreSeq(self, seq) IN
    IF ~Decodes(data)
    THEN Err(self, "Json")
    ELSE CASE data[1] = "Ready" ->
                Calling(Ok(ReadyArm(s1, data), "Dispatch"), s1.application_id_callback)
           [] data[1] = "Resumed" -> Ok(ResumedArm(s1, t), "Dispatch")
           [] OTHER -> Ok(s1, "Dispatch")

HandleGatewayDispatch(self, seq, data, t) ==
    LET s1 == StoreSeq(self, seq) IN
    IF ~Decodes(data)
    THEN Err(s1, "Json")
    ELSE CASE data[1] = "Ready" ->
                Calling(Ok(ReadyArm(s1, data), "Dispatch"), s1.application_id_callback)
           [] data[1] = "Resumed" -> Ok(ResumedArm(s1, t), "Dispatch")
           [] OTHER -> Ok(s1, "Dispatch")

----------------------------------------------------------------------------
(* Shard::handle_heartbeat_event *)

\* variant: an off-sequence heartbeat identifies whatever the stage
HandleHeartbeatEvent_NoStageCheck(self, s) ==
    IF s > self.seq + 1
    THEN Ok([self EXCEPT !.stage = "Identifying"], "Identify")
    ELSE Ok(self, "Heartbeat")

\* variant: a heartbeat one ahead of the last dispatch is off sequence already
HandleHeartbeatEvent_Strict(self, s) ==
    IF s > self.seq
    THEN IF self.stage = "Handshake"
         THEN Ok([self EXCEPT !.stage = "Identifying"], "Identify")
         ELSE Ok(self, "Reconnect")
    ELSE Ok(self, "Heartbeat")

HandleHeartbeatEvent(self, s) ==
    IF s > self.seq + 1
    THEN IF self.stage = "Handshake"
         THEN Ok([self EXCEPT !.stage = "Identifying"], "Identify")
         ELSE Ok(self, "Reconnect")
    ELSE Ok(self, "Heartbeat")

----------------------------------------------------------------------------
(* Shard::handle_gateway_closed: data is the Option of the frame's code *)

\* variant: an InvalidSequence close also drops the session
HandleGatewayClosed_InvalidSequenceDrops(self, data) ==
    IF IsSome(data)
    THEN LET code == CloseCode(Unwrap(data)) IN
         CASE code = "NotAuthenticated" -> Err(self, "NoAuthentication")
           [] code = "AuthenticationFailed" -> Err(self, "InvalidAuthentication")
           [] code = "InvalidSequence" ->
                Ok([self EXCEPT !.seq = 0, !.resume_metadata = None], "")
           [] code = "SessionTimeout" -> Ok([self EXCEPT !.resume_metadata = None], "")
           [] code = "InvalidShard" -> Err(self, "InvalidShardData")
           [] code = "ShardingRequired" -> Err(self, "OverloadedShard")
           [] code = "InvalidApiVersion" -> Err(self, "InvalidApiVersion")
           [] code = "InvalidGatewayIntents" -> Err(self, "InvalidGatewayIntents")
           [] code = "DisallowedGatewayIntents" -> Err(self, "DisallowedGatewayIntents")
           [] OTHER -> Ok(self, "")
    ELSE Ok(self, "")

\* variant: AlreadyAuthenticated ends the session like SessionTimeout
HandleGatewayClosed_AlreadyAuthenticatedDrops(self, data) ==
    IF IsSome(data)
    THEN LET code == CloseCode(Unwrap(data)) IN
         CASE code = "NotAuthenticated" -> Err(self, "NoAuthentication")
           [] code = "AuthenticationFailed" -> Err(self, "InvalidAuthentication")
           [] code = "AlreadyAuthenticated" -> Ok([self EXCEPT !.resume_metadata = None], "")
           [] code = "InvalidSequence" -> Ok([self EXCEPT !.seq = 0], "")
           [] code = "SessionTimeout" -> Ok([self EXCEPT !.resume_metadata = None], "")
           [] code = "InvalidShard" -> Err(self, "InvalidShardData")
           [] code = "ShardingRequired" -> Err(self, "OverloadedShard")
           [] code = "InvalidApiVersion" -> Err(self, "InvalidApiVersion")
           [] code = "InvalidGatewayIntents" -> Err(self, "InvalidGatewayIntents")
           [] code = "DisallowedGatewayIntents" -> Err(self, "DisallowedGatewayIntents")
           [] OTHER -> Ok(self, "")
    ELSE Ok(self, "")

\* variant: InvalidSequence is only warned about
HandleGatewayClosed_InvalidSequenceKeeps(self, data) ==
    IF IsSome(data)
    THEN LET code == CloseCode(Unwrap(data)) IN
         CASE code = "NotAuthenticated" -> Err(self, "NoAuthentication")
           [] code = "AuthenticationFailed" -> Err(self, "InvalidAuthentication")
           [] code = "SessionTimeout" -> Ok([self EXCEPT !.resume_metadata = None], "")
           [] code = "InvalidShard" -> Err(self, "InvalidShardData")
           [] code = "ShardingRequired" -> Err(self, "OverloadedShard")
           [] code = "InvalidApiVersion" -> Err(self, "InvalidApiVersion")
           [] code = "InvalidGatewayIntents" -> Err(self, "InvalidGatewayIntents")
           [] code = "DisallowedGatewayIntents" -> Err(self, "DisallowedGatewayIntents")
           [] OTHER -> Ok(self, "")
    ELSE Ok(self, "")

\* variant: SessionTimeout is only warned about
HandleGatewayClosed_SessionTimeoutKeeps(self, data) ==
    IF IsSome(data)
    THEN LET code == CloseCode(Unwrap(data)) IN
         CASE code = "NotAuthenticated" -> Err(self, "NoAuthentication")
           [] code = "AuthenticationFailed" -> Err(self, "InvalidAuthentication")
           [] code = "InvalidSequence" -> Ok([self EXCEPT !.seq = 0], "")
           [] code = "InvalidShard" -> Err(self, "InvalidShardData")
           [] code = "ShardingRequired" -> Err(self, "OverloadedShard")
           [] code = "InvalidApiVersion" -> Err(self, "InvalidApiVersion")
           [] code = "InvalidGatewayIntents" -> Err(self, "InvalidGatewayIntents")
           [] code = "DisallowedGatewayIntents" -> Err(self, "DisallowedGatewayIntents")
           [] OTHER -> Ok(self, "")
    ELSE Ok(self, "")

HandleGatewayClosed(self, data) ==
    IF IsSome(data)
    THEN LET code == CloseCode(Unwrap(data)) IN
         CASE code = "NotAuthenticated" -> Err(self, "NoAuthentication")
           [] code = "AuthenticationFailed" -> Err(self, "InvalidAuthentication")
           [] code = "InvalidSequence" -> Ok([self EXCEPT !.seq = 0], "")
           [] code = "SessionTimeout" -> Ok([self EXCEPT !.resume_metadata = None], "")
           [] code = "InvalidShard" -> Err(self, "InvalidShardData")
           [] code = "ShardingRequired" -> Err(self, "OverloadedShard")
           [] code = "InvalidApiVersion" -> Err(self, "InvalidApiVersion")
           [] code = "InvalidGatewayIntents" -> Err(self, "InvalidGatewayIntents")
           [] code = "DisallowedGatewayIntents" -> Err(self, "DisallowedGatewayIntents")
           [] OTHER -> Ok(self, "")
    ELSE Ok(self, "")

----------------------------------------------------------------------------
(* Shard::handle_event *)

\* variant: the interval of the first Hello is kept
HelloArm_FirstInterval(self, interval) ==
    IF self.stage = "Resuming"
    THEN Ok(self, "")
    ELSE LET s1 == IF IsSome(self.heartbeat_interval)
                   THEN self
                   ELSE [self EXCEPT !.heartbeat_interval = Some(interval)] IN
         IF self.stage = "Handshake"
         THEN Ok(s1, "Identify")
         ELSE Ok(s1, "Reconnect")

\* variant: a late Hello identifies like the first one
HelloArm_LateIdentify(self, interval) ==
    IF self.stage = "Resuming"
    THEN Ok(self, "")
    ELSE Ok([self EXCEPT !.heartbeat_interval = Some(interval)], "Identify")

HelloArm(self, interval) ==
    IF self.stage = "Resuming"
    THEN Ok(self, "")
    ELSE LET s1 == [self EXCEPT !.heartbeat_interval = Some(interval)] IN
         IF self.stage = "Handshake"
         THEN Ok(s1, "Identify")
         ELSE Ok(s1, "Reconnect")

HeartbeatAckArm(self, t) ==
    Ok([self EXCEPT !.last_heartbeat_ack = Some(t),
                    !.last_heartbeat_acknowledged = TRUE], "")

\* variant: a non-resumable invalidation also resets the sequence number
InvalidateSessionArm_ResetsSeq(self, resumable) ==
    IF ~resumable
    THEN Ok([self EXCEPT !.resume_metadata = None, !.seq = 0], "Reconnect")
    ELSE Ok(self, "Reconnect")

\* variant: every invalidation drops the session, resumable or not
InvalidateSessionArm_AlwaysDrops(self, resumable) ==
    Ok([self EXCEPT !.resume_metadata = None], "Reconnect")

InvalidateSessionArm(self, resumable) ==
    IF ~resumable
    THEN Ok([self EXCEPT !.resume_metadata = None], "Reconnect")
    ELSE Ok(self, "Reconnect")

\* variant: the error of handle_gateway_closed is dropped
ClosedArm_AlwaysReconnect(self, data) ==
    Ok(HandleGatewayClosed(self, data).self, "Reconnect")

ClosedArm(self, data) ==
    LET r == HandleGatewayClosed(self, data) IN
    IF r.ok THEN Ok(r.self, "Reconnect") ELSE r

\* variant: an error the shard does not know is answered by reconnecting
HandleEvent_UnhandledReconnects(self, ev, t) ==
    CASE ev.kind = "Dispatch" -> HandleGatewayDispatch(self, ev.n, ev.data, t)
      [] ev.kind = "Heartbeat" -> HandleHeartbeatEvent(self, ev.n)
      [] ev.kind = "HeartbeatAck" -> HeartbeatAckArm(self, t)
      [] ev.kind = "Hello" -> HelloArm(self, ev.n)
      [] ev.kind = "InvalidateSession" -> InvalidateSessionArm(self, ev.data[1] = "true")
      [] ev.kind = "Reconnect" -> Ok(self, "Reconnect")
      [] ev.kind = "Closed" ->
            ClosedArm(self, IF ev.data = <<>> THEN None ELSE Some(ev.n))
      [] ev.kind = "Tungstenite" -> Ok(self, "Reconnect")
      [] OTHER -> Ok(self, "Reconnect")

HandleEvent(self, ev, t) ==
    CASE ev.kind = "Dispatch" -> HandleGatewayDispatch(self, ev.n, ev.data, t)
      [] ev.kind = "Heartbeat" -> HandleHeartbeatEvent(self, ev.n)
      [] ev.kind = "HeartbeatAck" -> HeartbeatAckArm(self, t)
      [] ev.kind = "Hello" -> HelloArm(self, ev.n)
      [] ev.kind = "InvalidateSession" -> InvalidateSessionArm(self, ev.data[1] = "true")
      [] ev.kind = "Reconnect" -> Ok(self, "Reconnect")
      [] ev.kind = "Closed" ->
            ClosedArm(self, IF ev.data = <<>> THEN None ELSE Some(ev.n))
      [] ev.kind = "Tungstenite" -> Ok(self, "Reconnect")
      [] OTHER -> Ok(self, "")

----------------------------------------------------------------------------
(* Shard::do_heartbeat: ok is the returned bool *)

Elapsed(since, t) == t - since

WithinInterval(elapsed, heartbeat_interval) == elapsed <= heartbeat_interval

\* variant: the grace before the first Hello includes its last instant
WithinGrace_Inclusive(elapsed) == elapsed <= GraceMs

\* no Hello received yet: the shard is given 15 seconds from `started`
WithinGrace(elapsed) == elapsed < GraceMs

\* variant: the acknowledgement of the last heartbeat is not looked at
DoHeartbeat_NoAckCheck(self, t, send) ==
    IF ~IsSome(self.heartbeat_interval)
    THEN Out(self, WithinGrace(Elapsed(self.started, t)), "", "", <<>>, None)
    ELSE IF IsSome(self.last_heartbeat_sent)
            /\ WithinInterval(Elapsed(Unwrap(self.last_heartbeat_sent), t),
                              Unwrap(self.heartbeat_interval))
    THEN Out(self, TRUE, "", "", <<>>, None)
    ELSE LET r == Heartbeat(self, t, send) IN
         Out(r.self, r.ok, "", "", r.sent, None)

DoHeartbeat(self, t, send) ==
    IF ~IsSome(self.heartbeat_interval)
    THEN Out(self, WithinGrace(Elapsed(self.started, t)), "", "", <<>>, None)
    ELSE IF IsSome(self.last_heartbeat_sent)
            /\ WithinInterval(Elapsed(Unwrap(self.last_heartbeat_sent), t),
                              Unwrap(self.heartbeat_interval))
    THEN Out(self, TRUE, "", "", <<>>, None)
    ELSE IF ~self.last_heartbeat_acknowledged
    THEN Out(self, FALSE, "", "", <<>>, None)
    ELSE LET r == Heartbeat(self, t, send) IN
         Out(r.self, r.ok, "", "", r.sent, None)

----------------------------------------------------------------------------
(* Shard::latency: the returned Option<Duration>, in milliseconds *)

Latency(self) ==
    IF /\ IsSome(self.last_heartbeat_sent)
       /\ IsSome(self.last_heartbeat_ack)
       /\ Unwrap(self.last_heartbeat_ack) > Unwrap(self.last_heartbeat_sent)
    THEN Some(Unwrap(self.last_heartbeat_ack) - Unwrap(self.last_heartbeat_sent))
    ELSE None

----------------------------------------------------------------------------
(* Shard::identify *)

\* variant: identify() marks the shard connected
Identify_Connected(self, t, send) ==
    IF send[1] /= "Ok"
    THEN Err(self, "Tungstenite")
    ELSE Out([self EXCEPT !.last_heartbeat_sent = Some(t),
                          !.stage = "Connected"],
             TRUE, "", "", <<<<"Identify">>>>, None)

\* variant: identify() does not count as a heartbeat sent
Identify_NoTimestamp(self, t, send) ==
    IF send[1] /= "Ok"
    THEN Err(self, "Tungstenite")
    ELSE Out([self EXCEPT !.stage = "Identifying"],
             TRUE, "", "", <<<<"Identify">>>>, None)

\* variant: the timestamp and the stage are written before the frame
Identify_TimestampFirst(self, t, send) ==
    IF send[1] /= "Ok"
    THEN Err([self EXCEPT !.last_heartbeat_sent = Some(t),
                          !.stage = "Identifying"], "Tungstenite")
    ELSE Out([self EXCEPT !.last_heartbeat_sent = Some(t),
                          !.stage = "Identifying"],
             TRUE, "", "", <<<<"Identify">>>>, None)

Identify(self, t, send) ==
    IF send[1] /= "Ok"
    THEN Err(self, "Tungstenite")
    ELSE Out([self EXCEPT !.last_heartbeat_sent = Some(t),
                          !.stage = "Identifying"],
             TRUE, "", "", <<<<"Identify">>>>, None)

----------------------------------------------------------------------------
(* Shard::reinitialize, with connect *)

\* variant: every new connection goes to the generic URL
ReconnectUrl_AlwaysBase(self) == self.ws_url

\* the resume URL if there is one, otherwise the generic URL
ReconnectUrl(self) ==
    IF IsSome(self.resume_metadata)
    THEN Unwrap(self.resume_metadata).resume_ws_url
    ELSE self.ws_url

\* variant: a new connection starts with the heartbeat acknowledged
Reinitialize_ResetsAck(self, t, conn) ==
    LET ws_url == ReconnectUrl(self)
        s1 == [self EXCEPT !.stage = "Connecting", !.started = t,
                           !.last_heartbeat_acknowledged = TRUE]
    IN  IF conn /= "Ok"
        THEN Err(s1, "Connect")
        ELSE Out([s1 EXCEPT !.stage = "Handshake"], TRUE, "", "", <<>>, Some(ws_url))

\* variant: the stage and `started` are written once the connection is open
Reinitialize_ConnectFirst(self, t, conn) ==
    LET ws_url == ReconnectUrl(self)
        s1 == [self EXCEPT !.stage = "Connecting", !.started = t]
    IN  IF conn /= "Ok"
        THEN Err(self, "Connect")
        ELSE Out([s1 EXCEPT !.stage = "Handshake"], TRUE, "", "", <<>>, Some(ws_url))

Reinitialize(self, t, conn) ==
    LET ws_url == ReconnectUrl(self)
        s1 == [self EXCEPT !.stage = "Connecting", !.started = t]
    IN  IF conn /= "Ok"
        THEN Err(s1, "Connect")
        ELSE Out([s1 EXCEPT !.stage = "Handshake"], TRUE, "", "", <<>>, Some(ws_url))

----------------------------------------------------------------------------
(* Shard::resume *)

\* variant: without a session the Resume frame is written all the same
Resume_WithoutSession(self, t, conn, send) ==
    LET r == Reinitialize(self, t, conn) IN
    IF ~r.ok
    THEN r
    ELSE LET s1 == [r.self EXCEPT !.client = Unwrap(r.client), !.stage = "Resuming"]
             sid == IF IsSome(s1.resume_metadata)
                    THEN Unwrap(s1.resume_metadata).session_id
                    ELSE 0 IN
         IF send[1] = "Ok"
         THEN Out(s1, TRUE, "", "", <<<<"Resume", sid, s1.seq>>>>, None)
         ELSE Err(s1, "Tungstenite")

\* variant: the Resume frame restarts the sequence
Resume_ZeroSeq(self, t, conn, send) ==
    LET r == Reinitialize(self, t, conn) IN
    IF ~r.ok
    THEN r
    ELSE LET s1 == [r.self EXCEPT !.client = Unwrap(r.client), !.stage = "Resuming"] IN
         IF IsSome(s1.resume_metadata)
         THEN IF send[1] = "Ok"
              THEN Out(s1, TRUE, "", "",
                       <<<<"Resume", Unwrap(s1.resume_metadata).session_id, 0>>>>,
                       None)
              ELSE Err(s1, "Tungstenite")
         ELSE Err(s1, "NoSessionId")

\* variant: without a session resume() fails before it reconnects
Resume_ChecksSessionFirst(self, t, conn, send) ==
    LET r == Reinitialize(self, t, conn) IN
    IF ~IsSome(self.resume_metadata)
    THEN Err(self, "NoSessionId")
    ELSE IF ~r.ok
    THEN r
    ELSE LET s1 == [r.self EXCEPT !.client = Unwrap(r.client), !.stage = "Resuming"] IN
         IF send[1] = "Ok"
         THEN Out(s1, TRUE, "", "",
                  <<<<"Resume", Unwrap(s1.resume_metadata).session_id, s1.seq>>>>,
                  None)
         ELSE Err(s1, "Tungstenite")

Resume(self, t, conn, send) ==
    LET r == Reinitialize(self, t, conn) IN
    IF ~r.ok
    THEN r
    ELSE LET s1 == [r.self EXCEPT !.client = Unwrap(r.client), !.stage = "Resuming"] IN
         IF IsSome(s1.resume_metadata)
         THEN IF send[1] = "Ok"
              THEN Out(s1, TRUE, "", "",
                       <<<<"Resume", Unwrap(s1.resume_metadata).session_id, s1.seq>>>>,
                       None)
              ELSE Err(s1, "Tungstenite")
         ELSE Err(s1, "NoSessionId")

----------------------------------------------------------------------------
(* The state machine.  The shard has a single owner: it makes one call,    *)
(* takes what the call returned, and only then makes the next call.        *)

\* no call is waiting to be taken
Idle ==
    [op |-> "idle", ev |-> NoEvent, send |-> NoSend, ok |-> TRUE, action |-> "",
     err |-> "", sent |-> <<>>, client |-> None, called |-> None, value |-> None,
     pre |-> NewShard(0, None)]

Init ==
    /\ now = 0
    /\ shard = NewShard(0, None)
    /\ ret = [Idle EXCEPT !.op = "new"]
    /\ identifies = 0
    /\ ready_fate = "none"
    /\ unacked = None
    /\ observers = <<>>

\* A call of `op` with event `ev` that returned r; send is what its socket write, if
\* it makes one, comes to; pre is the shard it was made on.
Call(op, ev, send, r) ==
    /\ ret.op = "idle"
    /\ shard' = r.self
    /\ ret' = [op |-> op, ev |-> ev, send |-> send, ok |-> r.ok, action |-> r.action,
               err |-> r.err, sent |-> r.sent, client |-> r.client,
               called |-> r.called, value |-> r.value, pre |-> shard]
    /\ UNCHANGED now

\* History of the last Ready: "none" before any Ready, "live" after it, "seq_reset"
\* once a 4007 close followed it, "dropped" once a 4009 close or a non-resumable
\* InvalidateSession followed it.
Fate(fate, ev) ==
    CASE ev.kind = "Dispatch" /\ ev.data[1] = "Ready" -> "live"
      [] ev.kind = "Closed" /\ ev.data /= <<>> /\ ev.n = 4009 /\ fate /= "none" -> "dropped"
      [] ev.kind = "InvalidateSession" /\ ev.data[1] = "false" /\ fate /= "none" -> "dropped"
      [] ev.kind = "Closed" /\ ev.data /= <<>> /\ ev.n = 4007 /\ fate = "live" -> "seq_reset"
      [] OTHER -> fate

\* History of one callback: "pending" from its registration; "replaced" once
\* another callback is registered while it is pending; "called" once the first
\* Ready after its registration has invoked it; "missed" or (if it had been
\* replaced) "dropped" once that Ready has been processed without invoking it;
\* "called_replaced" if that Ready invokes it although it had been replaced;
\* "called_again" or "called_late" if a later Ready invokes it.
AfterReady(fate, invoked) ==
    IF invoked
    THEN CASE fate = "pending" -> "called"
           [] fate = "replaced" -> "called_replaced"
           [] fate = "called" -> "called_again"
           [] OTHER -> "called_late"
    ELSE CASE fate = "pending" -> "missed"
           [] fate = "replaced" -> "dropped"
           [] OTHER -> fate

AfterRegistration(fate) == IF fate = "pending" THEN "replaced" ELSE fate

\* one more Identify action emitted
Counted(n) == IF n < 2 THEN n + 1 ELSE n

\* handle_event(ev)
Receive(ev) ==
    LET r == HandleEvent(shard, ev, now) IN
    /\ Call("handle_event", ev, NoSend, r)
    /\ identifies' = IF r.action = "Identify" THEN Counted(identifies) ELSE identifies
    /\ ready_fate' = Fate(ready_fate, ev)
    /\ unacked' = IF ev.kind = "HeartbeatAck" THEN None ELSE unacked
    /\ observers' = IF ev.kind = "Dispatch" /\ ev.data[1] = "Ready"
                    THEN [i \in DOMAIN observers |-> AfterReady(observers[i], r.called = Some(i))]
                    ELSE observers

OnDispatch == \E s \in Seqs, d \in DispatchPayloads : Receive(Event("Dispatch", s, d))
\* a dispatch whose sequence number may run ahead of the last one by more than one
OnDispatchAhead ==
    \E s \in GapSeqs, d \in DispatchPayloads : Receive(Event("Dispatch", s, d))
OnHeartbeat == \E s \in HeartbeatSeqs : Receive(Event("Heartbeat", s, <<>>))
OnHeartbeatAck == Receive(Event("HeartbeatAck", 0, <<>>))
OnHello == \E i \in Intervals : Receive(Event("Hello", i, <<>>))
OnInvalidateSession ==
    \E b \in {"true", "false"} : Receive(Event("InvalidateSession", 0, <<b>>))
OnReconnect == Receive(Event("Reconnect", 0, <<>>))
OnClosedNoFrame == Receive(Event("Closed", 0, <<>>))
OnClosed == \E c \in CloseCodeInputs : Receive(Event("Closed", c, <<"frame">>))
OnWebsocketError == Receive(Event("Tungstenite", 0, <<>>))
OnOtherError == Receive(Event("OtherError", 0, <<>>))

CallHeartbeat ==
    \E send \in SendOutcomes :
        LET r == Heartbeat(shard, now, send) IN
        /\ Call("heartbeat", NoEvent, send, r)
        /\ unacked' = IF r.sent /= <<>> THEN Some(now) ELSE unacked
        /\ UNCHANGED <<identifies, ready_fate, observers>>

CallDoHeartbeat ==
    \E send \in SendOutcomes :
        LET r == DoHeartbeat(shard, now, send) IN
        /\ Call("do_heartbeat", NoEvent, send, r)
        /\ unacked' = IF r.sent /= <<>> THEN Some(now) ELSE unacked
        /\ UNCHANGED <<identifies, ready_fate, observers>>

CallIdentify ==
    \E send \in SendOutcomes :
        /\ Call("identify", NoEvent, send, Identify(shard, now, send))
        /\ UNCHANGED <<identifies, ready_fate, unacked, observers>>

CallReinitialize ==
    \E conn \in ConnectOutcomes :
        LET r == Reinitialize(shard, now, conn) IN
        /\ Call("reinitialize", NoEvent, NoSend, r)
        /\ identifies' = IF r.ok THEN 0 ELSE identifies
        /\ UNCHANGED <<ready_fate, unacked, observers>>

CallResume ==
    \E conn \in ConnectOutcomes, send \in SendOutcomes :
        LET r == Resume(shard, now, conn, send) IN
        /\ Call("resume", NoEvent, send, r)
        /\ identifies' = IF conn = "Ok" THEN 0 ELSE identifies
        /\ UNCHANGED <<ready_fate, unacked, observers>>

\* a callback not registered before is registered
CallSetApplicationIdCallback ==
    /\ Len(observers) < MaxObservers
    /\ LET callback == Len(observers) + 1 IN
       /\ Call("set_application_id_callback", NoEvent, NoSend,
               SetApplicationIdCallback(shard, callback))
       /\ observers' = [i \in 1..callback |->
                           IF i = callback THEN "pending"
                           ELSE AfterRegistration(observers[i])]
    /\ UNCHANGED <<identifies, ready_fate, unacked>>

\* the arguments of a presence call: the status ("" if it takes none), then the
\* activity if one is given
Args(status, activity) == Event("", 0, <<status>> \o activity)

CallSetActivity ==
    \E a \in {None} \cup {Some(x) : x \in Activities} :
        /\ Call("set_activity", Args("", a), NoSend, Ok(SetActivity(shard, a), ""))
        /\ UNCHANGED <<identifies, ready_fate, unacked, observers>>

CallSetPresence ==
    \E a \in {None} \cup {Some(x) : x \in Activities}, st \in OnlineStatuses :
        /\ Call("set_presence", Args(st, a), NoSend, Ok(SetPresence(shard, a, st), ""))
        /\ UNCHANGED <<identifies, ready_fate, unacked, observers>>

CallSetStatus ==
    \E st \in OnlineStatuses :
        /\ Call("set_status", Args(st, None), NoSend, Ok(SetStatus(shard, st), ""))
        /\ UNCHANGED <<identifies, ready_fate, unacked, observers>>

\* is_connecting() of any stage; ok is the returned bool
CallIsConnecting ==
    \E stage \in Stages :
        /\ Call("is_connecting", Args(stage, None), NoSend,
                Out(shard, IsConnecting(stage), "", "", <<>>, None))
        /\ UNCHANGED <<identifies, ready_fate, unacked, observers>>

CallLatency ==
    /\ Call("latency", NoEvent, NoSend, Returning(Ok(shard, ""), Latency(shard)))
    /\ UNCHANGED <<identifies, ready_fate, unacked, observers>>

\* the caller takes what the call returned
Return ==
    /\ ret.op /= "idle"
    /\ ret' = Idle
    /\ UNCHANGED <<shard, now, identifies, ready_fate, unacked, observers>>

\* time passes between calls (SpecClock only)
Tick ==
    /\ ret.op = "idle"
    /\ now + TickMs <= MaxTicks * TickMs
    /\ now' = now + TickMs
    /\ UNCHANGED <<shard, ret, identifies, ready_fate, unacked, observers>>

Next ==
    \/ OnDispatch
    \/ OnHeartbeat
    \/ OnHeartbeatAck
    \/ OnHello
    \/ OnInvalidateSession
    \/ OnReconnect
    \/ OnClosedNoFrame
    \/ OnClosed
    \/ OnWebsocketError
    \/ OnOtherError
    \/ CallHeartbeat
    \/ CallDoHeartbeat
    \/ CallIdentify
    \/ CallReinitialize
    \/ CallResume
    \/ Return

\* Every event and every call, all at one instant of the clock.
Spec == Init /\ [][Next]_vars

\* The calls and the events that read or write the heartbeat state, with the
\* clock advancing between them.
NextClock ==
    \/ OnDispatch
    \/ OnHeartbeat
    \/ OnHeartbeatAck
    \/ OnHello
    \/ OnReconnect
    \/ OnClosedNoFrame
    \/ OnWebsocketError
    \/ OnOtherError
    \/ CallHeartbeat
    \/ CallDoHeartbeat
    \/ CallIdentify
    \/ CallReinitialize
    \/ CallResume
    \/ Return
    \/ Tick

SpecClock == Init /\ [][NextClock]_vars

\* The registration of application-id callbacks, with the dispatches that call them
\* and the calls and events of a reconnect.
NextObserver ==
    \/ OnDispatch
    \/ OnHello
    \/ OnInvalidateSession
    \/ OnReconnect
    \/ CallSetApplicationIdCallback
    \/ CallIdentify
    \/ CallReinitialize
    \/ CallResume
    \/ Return

SpecObserver == Init /\ [][NextObserver]_vars

\* The dispatches, gaps in their sequence included, on a shard whose stage, session,
\* callback and heartbeat state the other events and calls have set.
NextDispatch ==
    \/ OnDispatchAhead
    \/ OnHello
    \/ OnHeartbeatAck
    \/ CallHeartbeat
    \/ CallIdentify
    \/ CallResume
    \/ CallSetApplicationIdCallback
    \/ Return

SpecDispatch == Init /\ [][NextDispatch]_vars

\* Sessions made, resumed and lost, and the reconnects of the runner, as time passes.
NextResume ==
    \/ OnDispatch
    \/ OnHello
    \/ OnInvalidateSession
    \/ CallReinitialize
    \/ CallResume
    \/ Tick
    \/ Return

SpecResume == Init /\ [][NextResume]_vars

\* A shard constructed with any presence, or none
InitPresence ==
    /\ now = 0
    /\ \E presence \in PresenceInputs : shard = NewShard(0, presence)
    /\ ret = [Idle EXCEPT !.op = "new"]
    /\ identifies = 0
    /\ ready_fate = "none"
    /\ unacked = None
    /\ observers = <<>>

\* The presence calls and the stage query, on a shard constructed with any presence.
NextPresence ==
    \/ CallSetActivity
    \/ CallSetPresence
    \/ CallSetStatus
    \/ CallIsConnecting
    \/ Return

SpecPresence == InitPresence /\ [][NextPresence]_vars

\* The heartbeat timestamps and the latency read from them: heartbeats written,
\* acknowledged and restarted by identify() and by a Resumed dispatch, as time passes.
NextLatency ==
    \/ OnDispatch
    \/ OnHeartbeatAck
    \/ CallHeartbeat
    \/ CallIdentify
    \/ CallLatency
    \/ Tick
    \/ Return

SpecLatency == Init /\ [][NextLatency]_vars

\* Scenario S1, the fresh session: at time 0 the Hello with interval 41250 ms, then
\* identify() until it succeeds, then the Ready dispatch with seq 1; from then on
\* the runner's do_heartbeat calls, the gateway's acknowledgements and latency()
\* reads, with the clock advancing 41 s at a time.
S1Hello ==
    /\ ~IsSome(shard.heartbeat_interval)
    /\ Receive(Event("Hello", 41250, <<>>))

S1Identify ==
    /\ IsSome(shard.heartbeat_interval)
    /\ ~IsSome(shard.last_heartbeat_sent)
    /\ CallIdentify

S1Ready ==
    /\ IsSome(shard.last_heartbeat_sent)
    /\ shard.stage /= "Connected"
    /\ \E sid \in SessionIds, url \in ResumeUrls :
           Receive(Event("Dispatch", 1, <<"Ready", sid, url>>))

S1Advance ==
    /\ ret.op = "idle"
    /\ shard.stage = "Connected"
    /\ now + 41000 <= (MaxTicks + 1) * 41000
    /\ now' = now + 41000
    /\ UNCHANGED <<shard, ret, identifies, ready_fate, unacked, observers>>

S1DoHeartbeat == now > 0 /\ CallDoHeartbeat
S1HeartbeatAck == now > 0 /\ OnHeartbeatAck
S1Latency == now > 0 /\ CallLatency

NextS1 ==
    \/ S1Hello
    \/ S1Identify
    \/ S1Ready
    \/ S1Advance
    \/ S1DoHeartbeat
    \/ S1HeartbeatAck
    \/ S1Latency
    \/ Return

SpecS1 == Init /\ [][NextS1]_vars

----------------------------------------------------------------------------
(* The properties.  Each is read in the state right after a call returned: *)
(* ret is the call, ret.pre the shard it was made on, shard the shard now. *)

Called(op) == ret.op = op
Handled(kind) == ret.op = "handle_event" /\ ret.ev.kind = kind
HandledDispatch(tag) == Handled("Dispatch") /\ ret.ev.data[1] = tag
HandledClose(code) == Handled("Closed") /\ ret.ev.data /= <<>> /\ ret.ev.n = code
HandledInvalidate(b) == Handled("InvalidateSession") /\ ret.ev.data[1] = b
ACall == ret.op \notin {"idle", "new"}
EmitsIdentify == ret.op = "handle_event" /\ ret.action = "Identify"

C2_Original ==
    Handled("Hello") /\ ret.pre.stage = "Handshake" =>
        /\ ret.ok /\ ret.action = "Identify"
        /\ shard.heartbeat_interval = Some(ret.ev.n)
        /\ shard.stage = "Identifying"

\* C2, amended: Hello(i) in stage Handshake returns Identify, sets the interval to
\* i ms and leaves the stage at Handshake; the stage becomes Identifying when
\* identify() then succeeds.
C2_HelloInHandshake ==
    /\ Handled("Hello") /\ ret.pre.stage = "Handshake" =>
        /\ ret.ok /\ ret.action = "Identify"
        /\ shard.heartbeat_interval = Some(ret.ev.n)
        /\ shard.stage = "Handshake"
    /\ Called("identify") /\ ret.ok => shard.stage = "Identifying"

C2_Witness ==
    /\ Handled("Hello") /\ ret.pre.stage = "Handshake"
    /\ IsSome(ret.pre.heartbeat_interval)
    /\ ret.pre.heartbeat_interval /= shard.heartbeat_interval

\* C3 as stated: resume_metadata is present iff a Ready has been processed and no
\* 4009 close, InvalidateSession(false) or 4007 close has followed it.
C3_Original == IsSome(shard.resume_metadata) <=> ready_fate = "live"

\* C3, amended: resume_metadata is present iff a Ready has been processed and no
\* 4009 close or InvalidateSession(false) has followed it; a 4007 close leaves it.
C3_ResumeMetadataPresence ==
    IsSome(shard.resume_metadata) <=> ready_fate \in {"live", "seq_reset"}

C3_Witness ==
    HandledClose(4007) /\ ready_fate = "seq_reset" /\ IsSome(shard.resume_metadata)

\* C4 as stated: a 4009 close, an InvalidateSession(false) and a 4007 close each
\* reset seq to 0, and nothing else does.
C4_Original ==
    /\ HandledClose(4009) \/ HandledClose(4007) \/ HandledInvalidate("false") =>
        shard.seq = 0
    /\ ACall /\ ret.pre.seq /= 0 /\ shard.seq = 0 =>
        HandledClose(4009) \/ HandledClose(4007) \/ HandledInvalidate("false")

\* C4, amended: a 4007 close resets seq to 0; a 4009 close and an
\* InvalidateSession(false) leave seq as it was; apart from the 4007 close, seq
\* changes only when a Dispatch is processed, which sets it to the number the
\* dispatch carries (0 included).
C4_SeqReset ==
    /\ HandledClose(4007) => shard.seq = 0
    /\ HandledClose(4009) \/ HandledInvalidate("false") => shard.seq = ret.pre.seq
    /\ ACall /\ shard.seq /= ret.pre.seq =>
        HandledClose(4007) \/ (Handled("Dispatch") /\ shard.seq = ret.ev.n)

C4_Witness == HandledClose(4007) /\ ret.pre.seq /= 0 /\ shard.seq = 0

\* C5 as stated: for every Dispatch(s) processed, seq afterwards is at least seq
\* before, whatever number the dispatch carries.
C5_Original == Handled("Dispatch") => shard.seq >= ret.pre.seq

\* C5, amended: for every Dispatch(s) processed, seq afterwards equals s, so seq
\* does not decrease exactly when s is not below the seq held before.
C5_SeqFollowsDispatch ==
    Handled("Dispatch") =>
        /\ shard.seq = ret.ev.n
        /\ shard.seq >= ret.pre.seq <=> ret.ev.n >= ret.pre.seq

C5_Witness == Handled("Dispatch") /\ ret.ev.n < ret.pre.seq /\ shard.seq = ret.ev.n

\* C6: every transition of the stage into Connected is made by processing a decoded
\* Ready or Resumed dispatch; a new shard is not Connected.
C6_ConnectedOnlyByReadyOrResumed ==
    /\ Called("new") => shard.stage /= "Connected"
    /\ ACall /\ shard.stage = "Connected" /\ ret.pre.stage /= "Connected" =>
        HandledDispatch("Ready") \/ HandledDispatch("Resumed")

C6_Witness ==
    /\ HandledDispatch("Resumed")
    /\ ret.pre.stage = "Identifying"
    /\ shard.stage = "Connected"

\* a heartbeat frame has just been written
SentHeartbeat ==
    /\ Called("heartbeat") \/ Called("do_heartbeat")
    /\ ret.sent /= <<>>

\* C7 as stated: after a heartbeat is sent last_heartbeat_acknowledged is false; a
\* HeartbeatAck sets it true and records the time; nothing else sets it true.
C7_Original ==
    /\ SentHeartbeat => ~shard.last_heartbeat_acknowledged
    /\ Handled("HeartbeatAck") =>
        shard.last_heartbeat_acknowledged /\ shard.last_heartbeat_ack = Some(now)
    /\ ACall /\ ~ret.pre.last_heartbeat_acknowledged /\ shard.last_heartbeat_acknowledged =>
        Handled("HeartbeatAck")

\* C7, amended: after a heartbeat is sent last_heartbeat_acknowledged is false and
\* stays false until a HeartbeatAck (which sets it true and records the ack time) or
\* a Resumed dispatch (which sets it true and clears the ack time) is processed;
\* nothing else sets it true.
C7_AckFlag ==
    /\ SentHeartbeat => ~shard.last_heartbeat_acknowledged
    /\ Handled("HeartbeatAck") =>
        shard.last_heartbeat_acknowledged /\ shard.last_heartbeat_ack = Some(now)
    /\ HandledDispatch("Resumed") =>
        shard.last_heartbeat_acknowledged /\ shard.last_heartbeat_ack = None
    /\ ACall /\ ~ret.pre.last_heartbeat_acknowledged /\ shard.last_heartbeat_acknowledged =>
        Handled("HeartbeatAck") \/ HandledDispatch("Resumed")

C7_Witness ==
    /\ HandledDispatch("Resumed")
    /\ ~ret.pre.last_heartbeat_acknowledged
    /\ shard.last_heartbeat_acknowledged

\* do_heartbeat was called with the interval set, the last heartbeat unacknowledged
\* and a last_heartbeat_sent to measure from
MissedAckCall ==
    /\ Called("do_heartbeat")
    /\ IsSome(ret.pre.heartbeat_interval)
    /\ ~ret.pre.last_heartbeat_acknowledged
    /\ IsSome(ret.pre.last_heartbeat_sent)

\* the time between last_heartbeat_sent and that call
SinceLastSent == Elapsed(Unwrap(ret.pre.last_heartbeat_sent), now)

\* C8: do_heartbeat called with the interval set, the last heartbeat unacknowledged
\* and at least one full interval elapsed since last_heartbeat_sent returns false
\* and sends nothing.
C8_MissedAckUnhealthy ==
    MissedAckCall /\ SinceLastSent >= Unwrap(ret.pre.heartbeat_interval) =>
        ~ret.ok /\ ret.sent = <<>>

\* C9 as stated: if a heartbeat was sent and no HeartbeatAck has been processed for
\* it, a do_heartbeat call made once one interval has elapsed since that send
\* returns false, whatever happened in between.  Read in the claim's favour: the
\* call is made later than one interval after the send (a call made exactly one
\* interval after it is the case of C8).
C9_Original ==
    /\ Called("do_heartbeat")
    /\ IsSome(unacked)
    /\ IsSome(ret.pre.heartbeat_interval)
    /\ Elapsed(Unwrap(unacked), now) > Unwrap(ret.pre.heartbeat_interval)
    => ~ret.ok

\* C9, amended: while last_heartbeat_acknowledged is false (a heartbeat was sent and
\* neither a HeartbeatAck nor a Resumed dispatch has been processed since), a
\* do_heartbeat call made more than one heartbeat_interval after
\* last_heartbeat_sent returns false and sends nothing; last_heartbeat_sent is the
\* time of that send or of a later successful identify(), and no other event or
\* call clears the flag.
C9_MissedAckReported ==
    /\ MissedAckCall /\ SinceLastSent > Unwrap(ret.pre.heartbeat_interval) =>
        ~ret.ok /\ ret.sent = <<>>
    /\ ~shard.last_heartbeat_acknowledged =>
        /\ IsSome(unacked) /\ IsSome(shard.last_heartbeat_sent)
        /\ Unwrap(shard.last_heartbeat_sent) >= Unwrap(unacked)
    /\ ACall /\ ~ret.pre.last_heartbeat_acknowledged /\ shard.last_heartbeat_acknowledged =>
        Handled("HeartbeatAck") \/ HandledDispatch("Resumed")
    /\ ACall /\ ~shard.last_heartbeat_acknowledged
             /\ shard.last_heartbeat_sent /= ret.pre.last_heartbeat_sent =>
        SentHeartbeat \/ (Called("identify") /\ ret.ok)

C9_Witness ==
    /\ MissedAckCall /\ SinceLastSent > Unwrap(ret.pre.heartbeat_interval)
    /\ ~ret.ok /\ ret.sent = <<>>
    /\ IsSome(unacked)

\* the error handle_event must return for a fatal close code
FatalError(code) ==
    CASE code = 4003 -> "NoAuthentication"
      [] code = 4004 -> "InvalidAuthentication"
      [] code = 4010 -> "InvalidShardData"
      [] code = 4011 -> "OverloadedShard"
      [] code = 4012 -> "InvalidApiVersion"
      [] code = 4013 -> "InvalidGatewayIntents"
      [] code = 4014 -> "DisallowedGatewayIntents"
      [] OTHER -> ""

\* C10: a close with code 4003, 4004, 4010, 4011, 4012, 4013 or 4014 makes
\* handle_event return the error NoAuthentication, InvalidAuthentication,
\* InvalidShardData, OverloadedShard, InvalidApiVersion, InvalidGatewayIntents or
\* DisallowedGatewayIntents respectively, and never the Reconnect action.
C10_FatalCloseCodes ==
    \A code \in {4003, 4004, 4010, 4011, 4012, 4013, 4014} :
        HandledClose(code) =>
            /\ ~ret.ok
            /\ ret.err = FatalError(code)
            /\ ret.action /= "Reconnect"

C10_Witness ==
    HandledClose(4014) /\ ret.err = "DisallowedGatewayIntents" /\ ret.action = ""

\* the last call was resume(), made with or without a session to resume
ResumeCalled(with_session) ==
    Called("resume") /\ IsSome(ret.pre.resume_metadata) = with_session

\* C11 as stated: resume() called while resume_metadata is absent fails with
\* NoSessionId and sends no Resume frame.
C11_Original ==
    ResumeCalled(FALSE) => ~ret.ok /\ ret.err = "NoSessionId" /\ ret.sent = <<>>

\* C11, amended: resume() called while resume_metadata is absent fails and sends no
\* Resume frame; it first reconnects, so it fails with NoSessionId (stage Resuming)
\* when the connect succeeds and with the connect error (stage Connecting) when the
\* connect fails.
C11_ResumeWithoutSession ==
    ResumeCalled(FALSE) =>
        /\ ~ret.ok /\ ret.sent = <<>>
        /\ shard.stage \in {"Resuming", "Connecting"}
        /\ shard.stage = "Resuming" <=> ret.err = "NoSessionId"
        /\ shard.stage = "Connecting" <=> ret.err = "Connect"

C11_Witness ==
    ResumeCalled(FALSE) /\ ret.err = "NoSessionId" /\ ret.send[1] = "Ok"

\* the Resume frame for the session and sequence the shard held before the call
ResumeFrame ==
    <<"Resume", Unwrap(ret.pre.resume_metadata).session_id, ret.pre.seq>>

\* C12 as stated: resume() called while resume_metadata is present sends a Resume
\* frame carrying the stored session_id and the current seq, and leaves the stage
\* Resuming and resume_metadata unchanged.  Read in the claim's favour: the socket
\* accepts the write.
C12_Original ==
    ResumeCalled(TRUE) /\ ret.send[1] = "Ok" =>
        /\ ret.sent = <<ResumeFrame>>
        /\ shard.stage = "Resuming"
        /\ shard.resume_metadata = ret.pre.resume_metadata

\* C12, amended: resume() called while resume_metadata is present first reconnects;
\* if the connect fails it returns the connect error, writes nothing and leaves the
\* stage Connecting; otherwise the stage is Resuming and it writes a Resume frame
\* carrying the stored session_id and the current seq, returning the write's error
\* if the write fails.  resume_metadata and seq are unchanged in every case, and
\* the stored session is that of the last Ready: only a decoded Ready stores one.
C12_ResumeWithSession ==
    /\ ResumeCalled(TRUE) =>
        /\ shard.resume_metadata = ret.pre.resume_metadata
        /\ shard.seq = ret.pre.seq
        /\ shard.stage \in {"Resuming", "Connecting"}
        /\ shard.stage = "Connecting" => ~ret.ok /\ ret.err = "Connect" /\ ret.sent = <<>>
        /\ shard.stage = "Resuming" =>
            IF ret.send[1] = "Ok"
            THEN ret.ok /\ ret.sent = <<ResumeFrame>>
            ELSE ~ret.ok /\ ret.err = "Tungstenite" /\ ret.sent = <<>>
    /\ ACall /\ IsSome(shard.resume_metadata)
             /\ shard.resume_metadata /= ret.pre.resume_metadata =>
        /\ HandledDispatch("Ready")
        /\ Unwrap(shard.resume_metadata).session_id = ret.ev.data[2]

C12_Witness ==
    /\ ResumeCalled(TRUE) /\ ret.ok
    /\ ret.sent = <<ResumeFrame>>
    /\ ret.pre.seq > 0
    /\ ret.pre.stage = "Connected"

\* C13: a decoded Ready dispatch with sequence s received in stage Identifying sets
\* the stage to Connected, resume_metadata to the Ready's session_id and
\* resume_gateway_url, and seq to s.
C13_ReadyInIdentifying ==
    HandledDispatch("Ready") /\ ret.pre.stage = "Identifying" =>
        /\ ret.ok /\ ret.action = "Dispatch"
        /\ shard.stage = "Connected"
        /\ shard.resume_metadata =
               Some([session_id |-> ret.ev.data[2], resume_ws_url |-> ret.ev.data[3]])
        /\ shard.seq = ret.ev.n

C13_Witness ==
    /\ HandledDispatch("Ready") /\ ret.pre.stage = "Identifying"
    /\ IsSome(ret.pre.resume_metadata)
    /\ shard.resume_metadata /= ret.pre.resume_metadata
    /\ shard.seq /= ret.pre.seq

\* C14: a decoded Resumed dispatch received in stage Resuming sets the stage to
\* Connected and last_heartbeat_acknowledged to true, sets last_heartbeat_sent to now
\* and last_heartbeat_ack to absent, and leaves resume_metadata unchanged.
C14_ResumedInResuming ==
    HandledDispatch("Resumed") /\ ret.pre.stage = "Resuming" =>
        /\ ret.ok /\ ret.action = "Dispatch"
        /\ shard.stage = "Connected"
        /\ shard.last_heartbeat_acknowledged
        /\ shard.last_heartbeat_sent = Some(now)
        /\ shard.last_heartbeat_ack = None
        /\ shard.resume_metadata = ret.pre.resume_metadata

C14_Witness ==
    /\ HandledDispatch("Resumed") /\ ret.pre.stage = "Resuming"
    /\ ~ret.pre.last_heartbeat_acknowledged
    /\ IsSome(ret.pre.last_heartbeat_ack)
    /\ IsSome(ret.pre.resume_metadata)
    /\ IsSome(ret.pre.last_heartbeat_sent)
    /\ Unwrap(ret.pre.last_heartbeat_sent) < now
    /\ shard.stage = "Connected"

AckedCall ==
    /\ Called("do_heartbeat")
    /\ IsSome(ret.pre.heartbeat_interval)
    /\ IsSome(ret.pre.last_heartbeat_sent)
    /\ ret.pre.last_heartbeat_acknowledged

\* C17: when the interval has elapsed and the last heartbeat was acknowledged,
\* do_heartbeat sends one Heartbeat carrying the current seq; on send success it sets
\* last_heartbeat_sent to now and last_heartbeat_acknowledged to false and returns
\* true; on send failure it returns false and leaves both unchanged.
C17_HeartbeatWhenDue ==
    AckedCall /\ SinceLastSent >= Unwrap(ret.pre.heartbeat_interval) =>
        IF ret.send[1] = "Ok"
        THEN /\ ret.ok
             /\ ret.sent = <<<<"Heartbeat", ret.pre.seq>>>>
             /\ shard.last_heartbeat_sent = Some(now)
             /\ ~shard.last_heartbeat_acknowledged
        ELSE /\ ~ret.ok
             /\ ret.sent = <<>>
             /\ shard.last_heartbeat_sent = ret.pre.last_heartbeat_sent
             /\ shard.last_heartbeat_acknowledged = ret.pre.last_heartbeat_acknowledged

\* a socket write that failed with the broken-pipe I/O error
BrokenPipeSend == ret.send = <<"Io", BrokenPipe>>

\* do_heartbeat got as far as writing a heartbeat: the interval is set, the last
\* heartbeat is acknowledged, and no heartbeat was sent within the last interval
HeartbeatAttempted ==
    /\ Called("do_heartbeat")
    /\ IsSome(ret.pre.heartbeat_interval)
    /\ ret.pre.last_heartbeat_acknowledged
    /\ \/ ~IsSome(ret.pre.last_heartbeat_sent)
       \/ SinceLastSent > Unwrap(ret.pre.heartbeat_interval)

\* C18: a heartbeat send that fails with the broken-pipe I/O error (OS code 32) is
\* never reported as healthy: heartbeat() returns HeartbeatFailed and do_heartbeat
\* returns false, exactly as for any other send failure.
C18_BrokenPipeUnhealthy ==
    /\ Called("heartbeat") /\ ret.send[1] /= "Ok" =>
        ~ret.ok /\ ret.err = "HeartbeatFailed" /\ ret.sent = <<>> /\ shard = ret.pre
    /\ HeartbeatAttempted /\ ret.send[1] /= "Ok" =>
        ~ret.ok /\ ret.sent = <<>> /\ shard = ret.pre

C18_Witness ==
    /\ HeartbeatAttempted /\ BrokenPipeSend
    /\ IsSome(ret.pre.last_heartbeat_sent)
    /\ ~ret.ok

\* the URL the shard held for its next connection before the call
UrlBefore ==
    IF IsSome(ret.pre.resume_metadata)
    THEN Unwrap(ret.pre.resume_metadata).resume_ws_url
    ELSE ret.pre.ws_url

\* C19: reinitialize() connects to resume_metadata.resume_ws_url when
\* resume_metadata is present and to the base URL otherwise; so once
\* resume_metadata has been dropped (SessionTimeout close or
\* InvalidateSession(false)) the next reinitialize() uses the base URL.
C19_ReconnectUrl ==
    /\ Called("reinitialize") /\ ret.ok => ret.client = Some(UrlBefore)
    /\ Called("resume") /\ shard.stage = "Resuming" => shard.client = UrlBefore
    /\ Called("reinitialize") /\ ret.ok /\ ready_fate = "dropped" =>
        ret.client = Some(BaseUrl)
    /\ shard.ws_url = BaseUrl

C19_Witness ==
    /\ Called("reinitialize") /\ ret.ok
    /\ ready_fate = "dropped"
    /\ ret.pre.client \in ResumeUrls
    /\ ret.client = Some(BaseUrl)

\* C20 as stated: each registered application-id observer is invoked at most once:
\* it is invoked on the first Ready processed after its registration and never
\* again by a later Ready or Resumed, reconnects and resumes included.
C20_Original ==
    \A i \in DOMAIN observers :
        observers[i] \in {"pending", "replaced", "called", "called_replaced"}

\* C20, amended: the shard holds one observer, the one registered last.  It is
\* invoked on the first Ready processed after its registration and never again by a
\* later Ready or Resumed, reconnects and resumes included; an observer replaced by
\* a later registration before that Ready is never invoked.  No observer is invoked
\* more than once.
C20_ObserverOnce ==
    /\ \A i \in DOMAIN observers :
          /\ observers[i] \in {"pending", "replaced", "called", "dropped"}
          /\ observers[i] = "pending" <=> shard.application_id_callback = Some(i)
          /\ observers[i] = "replaced" => i < Len(observers)
    /\ HandledDispatch("Ready") => shard.application_id_callback = None
    /\ IsSome(ret.called) =>
          HandledDispatch("Ready") /\ ret.called = ret.pre.application_id_callback

C20_Witness ==
    /\ HandledDispatch("Ready") /\ ret.called = None
    /\ ret.pre.stage = "Resuming"
    /\ \E i \in DOMAIN observers : observers[i] = "called"
    /\ \E i \in DOMAIN observers : observers[i] = "dropped"

\* the last call carried this status as its argument
StatusArg(op, status) == Called(op) /\ ret.ev.data[1] = status

\* C22: in every reachable state presence.status is one of online, idle, dnd,
\* invisible and never offline: set_status(Offline) and set_presence(_, Offline)
\* store Invisible, and this holds however the presence was supplied, the presence
\* passed at construction included.
C22_NeverOffline ==
    /\ shard.presence.status \in OnlineStatuses \ {"Offline"}
    /\ StatusArg("set_status", "Offline") \/ StatusArg("set_presence", "Offline") =>
        shard.presence.status = "Invisible"

\* C24 as stated: a newly constructed Shard is in stage Disconnected with seq = 0,
\* no resume_metadata, no heartbeat_interval and last_heartbeat_acknowledged true.
C24_Original ==
    Called("new") =>
        /\ shard.stage = "Disconnected"
        /\ shard.seq = 0
        /\ shard.resume_metadata = None
        /\ shard.heartbeat_interval = None
        /\ shard.last_heartbeat_acknowledged

\* C24, amended: a newly constructed Shard is in stage Handshake (Shard::new has
\* already opened the connection) with seq = 0, no resume_metadata, no
\* heartbeat_interval and last_heartbeat_acknowledged true; no shard is ever in
\* stage Disconnected.
C24_NewShard ==
    /\ Called("new") =>
        /\ shard.stage = "Handshake"
        /\ shard.seq = 0
        /\ shard.resume_metadata = None
        /\ shard.heartbeat_interval = None
        /\ shard.last_heartbeat_acknowledged
    /\ shard.stage /= "Disconnected"

C24_Witness == Called("new") /\ shard.stage = "Handshake" /\ shard.started = now

\* C25: is_connecting returns true exactly for Connecting, Handshake, Identifying and
\* Resuming, and false for Connected and Disconnected.
C25_IsConnecting ==
    Called("is_connecting") =>
        /\ ret.ev.data[1] \in {"Connecting", "Handshake", "Identifying", "Resuming"} => ret.ok
        /\ ret.ev.data[1] \in {"Connected", "Disconnected"} => ~ret.ok
        /\ ret.ev.data[1] \in Stages
        /\ shard = ret.pre

C25_Witness == Called("is_connecting") /\ ret.ev.data[1] = "Connected" /\ ~ret.ok

\* C26: handle_event(Hello(i)) with stage Resuming records heartbeat_interval := i
\* milliseconds, keeps the stage Resuming and returns no action.
C26_HelloInResuming ==
    Handled("Hello") /\ ret.pre.stage = "Resuming" =>
        /\ ret.ok /\ ret.action = ""
        /\ shard.stage = "Resuming"
        /\ shard.heartbeat_interval = Some(ret.ev.n)

BeforeHelloCall ==
    /\ Called("do_heartbeat")
    /\ ret.pre.stage = "Handshake"
    /\ identifies = 0

\* C27: the pre-Hello grace applies to every (re)initialization: after
\* reinitialize() has reset `started` and until a Hello is processed on the new
\* connection, do_heartbeat sends nothing and returns true iff less than 15 s have
\* elapsed since `started`.
C27_GraceAfterReinitialize ==
    BeforeHelloCall =>
        /\ ret.sent = <<>>
        /\ ret.ok <=> Elapsed(ret.pre.started, now) < GraceMs

\* C28: do_heartbeat returns true without sending exactly when last_heartbeat_sent
\* is set and the time elapsed since it is strictly less than heartbeat_interval;
\* when the elapsed time equals the interval it goes on to the acknowledgement
\* check (false when unacknowledged) and to the send (true iff the send succeeds).
C28_StrictlyLess ==
    /\ Called("do_heartbeat")
    /\ IsSome(ret.pre.heartbeat_interval)
    /\ IsSome(ret.pre.last_heartbeat_sent)
    => /\ SinceLastSent < Unwrap(ret.pre.heartbeat_interval) =>
            ret.ok /\ ret.sent = <<>> /\ shard = ret.pre
       /\ SinceLastSent = Unwrap(ret.pre.heartbeat_interval) =>
            IF ret.pre.last_heartbeat_acknowledged
            THEN /\ ret.ok <=> ret.send[1] = "Ok"
                 /\ ret.ok => ret.sent = <<<<"Heartbeat", ret.pre.seq>>>>
            ELSE ~ret.ok /\ ret.sent = <<>>

\* C21: latency() returns Some(d), d = last_heartbeat_ack - last_heartbeat_sent >= 0,
\* if and only if both timestamps are set and ack >= send, equality included;
\* otherwise it returns None.
C21_Latency ==
    Called("latency") =>
        /\ shard = ret.pre
        /\ IF /\ IsSome(ret.pre.last_heartbeat_sent)
              /\ IsSome(ret.pre.last_heartbeat_ack)
              /\ Unwrap(ret.pre.last_heartbeat_ack) >= Unwrap(ret.pre.last_heartbeat_sent)
           THEN ret.value = Some(Unwrap(ret.pre.last_heartbeat_ack)
                                    - Unwrap(ret.pre.last_heartbeat_sent))
           ELSE ret.value = None

\* do_heartbeat was called in S1 once the session is established: the Hello of
\* 41250 ms, identify() and the Ready with seq 1 have all been processed
S1Established ==
    /\ Called("do_heartbeat")
    /\ ret.pre.stage = "Connected"
    /\ ret.pre.heartbeat_interval = Some(41250)
    /\ ret.pre.seq = 1

\* C23 as stated: in S1 the do_heartbeat call made 41 s after the Hello, the
\* identify() and the Ready sends a Heartbeat carrying seq 1 and returns true.
C23_Original ==
    S1Established /\ now = 41000 /\ ret.send[1] = "Ok" =>
        ret.ok /\ ret.sent = <<<<"Heartbeat", 1>>>>

\* C23, amended: identify() records last_heartbeat_sent, so in S1 a do_heartbeat
\* call made 41 s later (41000 ms <= 41250 ms) returns true without sending and
\* leaves the shard unchanged; the Heartbeat carrying seq 1 is sent, and true
\* returned, by the first do_heartbeat call made more than 41250 ms after the
\* identify(), provided the write succeeds.
C23_S1Timing ==
    /\ Called("identify") /\ ret.ok => shard.last_heartbeat_sent = Some(now)
    /\ S1Established /\ now = 41000 =>
        /\ ret.pre.last_heartbeat_sent = Some(0)
        /\ ret.ok /\ ret.sent = <<>> /\ shard = ret.pre
    /\ S1Established /\ ret.pre.last_heartbeat_sent = Some(0) /\ now > 41250
                     /\ ret.send[1] = "Ok" =>
        /\ ret.ok /\ ret.sent = <<<<"Heartbeat", 1>>>>
        /\ shard.last_heartbeat_sent = Some(now)

C23_Witness ==
    /\ S1Established /\ now = 41000
    /\ ret.send[1] = "Ok"
    /\ ret.ok /\ ret.sent = <<>>

\* the close codes that handle_gateway_closed only warns about: 4000, 4001, 4002,
\* 4005, 4008 and every code the close-code table does not name
WarnOnlyCodes ==
    CloseCodeInputs \ {4003, 4004, 4007, 4009, 4010, 4011, 4012, 4013, 4014}

\* handle_event was given something the shard recovers from by reconnecting only
TransientFailure ==
    \/ Handled("Reconnect")
    \/ Handled("Tungstenite")
    \/ Handled("Closed") /\ ret.ev.data = <<>>
    \/ \E code \in WarnOnlyCodes : HandledClose(code)

\* C31: an op-7 Reconnect, a websocket transport error, a close without a close
\* frame and a close with a warn-only code (4000, 4001, 4002, 4005, 4008 or a code
\* the close-code table does not name) each make handle_event return Reconnect and
\* leave seq, stage and resume_metadata unchanged.
C31_TransientReconnect ==
    TransientFailure =>
        /\ ret.ok /\ ret.action = "Reconnect"
        /\ shard.seq = ret.pre.seq
        /\ shard.stage = ret.pre.stage
        /\ shard.resume_metadata = ret.pre.resume_metadata

C31_Witness ==
    /\ HandledClose(4005)
    /\ ret.action = "Reconnect"
    /\ IsSome(shard.resume_metadata)
    /\ shard.seq > 0
    /\ shard.stage = "Connected"

\* C32: a close with code 4007 (InvalidSequence) sets seq to 0 and makes
\* handle_event return Reconnect.
C32_InvalidSequence ==
    HandledClose(4007) =>
        /\ ret.ok /\ ret.action = "Reconnect"
        /\ shard.seq = 0

C32_Witness ==
    /\ HandledClose(4007)
    /\ ret.pre.seq > 0
    /\ shard.seq = 0
    /\ ret.action = "Reconnect"

\* C33 as stated: a close with code 4009 (SessionTimeout) clears resume_metadata and
\* makes handle_event return Reconnect, and a resume() that follows the loss of the
\* session fails with NoSessionId.
C33_Original ==
    /\ HandledClose(4009) =>
        ret.ok /\ ret.action = "Reconnect" /\ shard.resume_metadata = None
    /\ Called("resume") /\ ready_fate = "dropped" =>
        ~ret.ok /\ ret.err = "NoSessionId"

\* C33, amended: a close with code 4009 clears resume_metadata and makes
\* handle_event return Reconnect; a resume() that follows fails and writes no Resume
\* frame: with NoSessionId once its connect has succeeded (stage Resuming), with
\* the connect error when the connect fails (stage Connecting).
C33_SessionTimeout ==
    /\ HandledClose(4009) =>
        ret.ok /\ ret.action = "Reconnect" /\ shard.resume_metadata = None
    /\ Called("resume") /\ ready_fate = "dropped" =>
        /\ ~ret.ok /\ ret.sent = <<>>
        /\ ret.err \in {"NoSessionId", "Connect"}
        /\ ret.err = "NoSessionId" <=> shard.stage = "Resuming"
        /\ ret.err = "Connect" <=> shard.stage = "Connecting"

C33_Witness ==
    /\ HandledClose(4009)
    /\ IsSome(ret.pre.resume_metadata)
    /\ shard.resume_metadata = None
    /\ ret.action = "Reconnect"

\* C34: for every Dispatch with sequence s whose payload decodes to an event other
\* than Ready or Resumed, handle_event sets seq := s, also when s > seq + 1 (a gap
\* does not block processing), and returns Dispatch(event); stage, resume_metadata
\* and the heartbeat state, like everything but seq, are unchanged.
C34_OtherDispatch ==
    HandledDispatch("Other") =>
        /\ ret.ok /\ ret.action = "Dispatch"
        /\ shard.seq = ret.ev.n
        /\ shard = [ret.pre EXCEPT !.seq = ret.ev.n]

C34_Witness ==
    /\ HandledDispatch("Other")
    /\ ret.ev.n > ret.pre.seq + 1
    /\ shard.seq = ret.ev.n
    /\ shard.stage = "Resuming"
    /\ IsSome(shard.resume_metadata)
    /\ ~shard.last_heartbeat_acknowledged

\* C38: a Dispatch with sequence s whose payload fails to decode makes handle_event
\* return an error and no action, seq having been set to s already; stage,
\* resume_metadata and the pending application-id observer are unchanged, and the
\* observer is not invoked.
C38_UndecodableDispatch ==
    HandledDispatch("Undecodable") =>
        /\ ~ret.ok /\ ret.err = "Json" /\ ret.action = ""
        /\ shard.seq = ret.ev.n
        /\ shard.stage = ret.pre.stage
        /\ shard.resume_metadata = ret.pre.resume_metadata
        /\ shard.application_id_callback = ret.pre.application_id_callback
        /\ ret.called = None

C38_Witness ==
    /\ HandledDispatch("Undecodable")
    /\ ~ret.ok
    /\ shard.seq /= ret.pre.seq
    /\ IsSome(shard.application_id_callback)
    /\ shard.stage = "Identifying"

\* C35: reinitialize() sets the stage to Connecting and resets `started` before it
\* opens the connection, and sets the stage to Handshake only once the connect has
\* succeeded; when the connect fails it returns the error with the stage left at
\* Connecting, and seq and resume_metadata are unchanged either way.
C35_Reinitialize ==
    Called("reinitialize") =>
        /\ shard.started = now
        /\ shard.seq = ret.pre.seq
        /\ shard.resume_metadata = ret.pre.resume_metadata
        /\ IF ret.ok
           THEN shard.stage = "Handshake" /\ IsSome(ret.client)
           ELSE ret.err = "Connect" /\ shard.stage = "Connecting" /\ ret.client = None

C35_Witness ==
    /\ Called("reinitialize") /\ ~ret.ok
    /\ ret.pre.stage = "Connected"
    /\ shard.stage = "Connecting"
    /\ ret.pre.started < now
    /\ shard.started = now
    /\ shard.seq > 0

\* C36: identify() sends one Identify frame; when the write succeeds it sets
\* last_heartbeat_sent to now and the stage to Identifying; when the write fails it
\* returns the error and leaves stage and last_heartbeat_sent unchanged.  In neither
\* case does it modify last_heartbeat_acknowledged, seq or resume_metadata.
C36_Identify ==
    Called("identify") =>
        /\ IF ret.send[1] = "Ok"
           THEN /\ ret.ok /\ ret.sent = <<<<"Identify">>>>
                /\ shard.last_heartbeat_sent = Some(now)
                /\ shard.stage = "Identifying"
           ELSE /\ ~ret.ok /\ ret.err = "Tungstenite" /\ ret.sent = <<>>
                /\ shard.last_heartbeat_sent = ret.pre.last_heartbeat_sent
                /\ shard.stage = ret.pre.stage
        /\ shard.last_heartbeat_acknowledged = ret.pre.last_heartbeat_acknowledged
        /\ shard.seq = ret.pre.seq
        /\ shard.resume_metadata = ret.pre.resume_metadata

C36_Witness ==
    /\ Called("identify") /\ ret.ok
    /\ ret.pre.stage = "Handshake"
    /\ IsSome(ret.pre.last_heartbeat_sent)
    /\ Unwrap(ret.pre.last_heartbeat_sent) < now
    /\ ~shard.last_heartbeat_acknowledged
    /\ IsSome(shard.resume_metadata)

\* C37: an inbound error that is neither a gateway Closed nor a websocket transport
\* error (such as an envelope that could not be decoded) makes handle_event return
\* no action and no error, and changes nothing in the shard.
C37_UnhandledError ==
    Handled("OtherError") =>
        /\ ret.ok /\ ret.action = "" /\ ret.err = ""
        /\ shard = ret.pre

C37_Witness ==
    /\ Handled("OtherError")
    /\ ret.ok /\ ret.action = ""
    /\ shard.stage = "Connected"
    /\ IsSome(shard.resume_metadata)

\* C39: a reconnect followed by a fresh identify does not reset the ack flag:
\* reinitialize(), Hello, identify() and Ready leave last_heartbeat_acknowledged as
\* it was, so with the flag false when the reconnect begins the do_heartbeat call
\* made on the new session once one interval has elapsed since identify() returns
\* false and sends no heartbeat.
C39_AckFlagSurvivesReidentify ==
    /\ \/ Called("reinitialize")
       \/ Called("identify")
       \/ Handled("Hello")
       \/ HandledDispatch("Ready")
       => shard.last_heartbeat_acknowledged = ret.pre.last_heartbeat_acknowledged
    /\ /\ Called("do_heartbeat")
       /\ ret.pre.stage = "Connected"
       /\ ready_fate = "live"
       /\ ~ret.pre.last_heartbeat_acknowledged
       /\ IsSome(ret.pre.heartbeat_interval)
       /\ IsSome(ret.pre.last_heartbeat_sent)
       /\ SinceLastSent >= Unwrap(ret.pre.heartbeat_interval)
       => ~ret.ok /\ ret.sent = <<>>

====
